---- MODULE Spec2Model ----
(***************************************************************************)
(* A model of the XML encoder of go.xml: the namespace context             *)
(* (namespace.go) and the printer (marshal.go: Encoder.Encode,             *)
(* marshalValue, marshalSimple, marshalStruct, writeIndent, parentStack).  *)
(*                                                                         *)
(* Contexts live in a heap, a sequence of nodes addressed by their index;  *)
(* address 1 is the encoder's root context, whose parent is itself.        *)
(* Output is a sequence of tokens; every token stands for a non-empty run  *)
(* of bytes that one group of Write calls produces.  Text contents are     *)
(* sequences of one-character strings, names/namespaces/prefixes are       *)
(* strings.                                                                *)
(***************************************************************************)
EXTENDS Integers, Sequences, FiniteSets, TLC

VARIABLES
    heap,        \* the contexts: root at address 1, then those of the last Encode
    prefix,      \* printer.prefix
    indent,      \* printer.indent
    depth,       \* printer.depth
    indentedIn,  \* printer.indentedIn
    putNewline,  \* printer.putNewline
    buffered,    \* bufio.Writer.n: how much is written and not yet flushed, in tokens
    werr,        \* bufio.Writer: the cached (sticky) write error is set
    flushed,     \* how much the last call handed to the underlying io.Writer
    out,         \* what the printer wrote during the last Encode call
    err,         \* the value the last Encode call returned ("nil" = success)
    calls,       \* number of Encode calls made
    flog,        \* the struct fields the last Encode call processed
    elog,        \* the elements the last Encode call began to write
    earlier,     \* the namespaces declared by the Encode calls before the last
    returned     \* the last Encode call returned and its caller has not looked yet

vars == <<heap, prefix, indent, depth, indentedIn, putNewline, buffered, werr,
          flushed, out, err, calls, flog, elog, earlier, returned>>

\* --------------------------------------------------------------- bounds
MaxCalls == 2
MaxLen == 2
MaxCtx == 3

\* ---------------------------------------------------- namespace context
XML_NS == "http://www.w3.org/XML/1998/namespace"
XMLNS_NS == "http://www.w3.org/2000/xmlns/"

EmptyMap == [k \in {} |-> ""]

Root == 1

\* rootNs2Pfx: a node that is its own parent, with the two reserved bindings.
rootNs2Pfx ==
    [xmlns |-> "", pfxmap |-> (XML_NS :> "xml") @@ (XMLNS_NS :> "xmlns"), parent |-> Root]

\* child: a new node with an empty map whose parent is n; its address is
\* Len(h) + 1 in the returned heap.
child(h, n) == Append(h, [xmlns |-> "", pfxmap |-> EmptyMap, parent |-> n])

\* The address child(h, n) gives the new node.
NewAddr(h) == Len(h) + 1

\* n.pfxmap[k] = v
BindIntoParent(h, n, k, v) == [h EXCEPT ![h[n].parent].pfxmap = (k :> v) @@ @]

Bind(h, n, k, v) == [h EXCEPT ![n].pfxmap = (k :> v) @@ @]

\* One frame of context.Get, d frames deep.  A chain of more frames than the
\* heap has nodes never ends: done = FALSE stands for the unbounded recursion.
RECURSIVE GetFrame(_, _, _, _)
GetNoSelfCheck(h, n, k, d) ==
    IF d > Len(h) THEN [v |-> "", ok |-> FALSE, done |-> FALSE]
    ELSE IF k \in DOMAIN h[n].pfxmap THEN [v |-> h[n].pfxmap[k], ok |-> TRUE, done |-> TRUE]
    ELSE GetFrame(h, h[n].parent, k, d + 1)

GetLocalOnly(h, n, k, d) ==
    IF k \in DOMAIN h[n].pfxmap THEN [v |-> h[n].pfxmap[k], ok |-> TRUE, done |-> TRUE]
    ELSE [v |-> "", ok |-> FALSE, done |-> TRUE]

GetFrame(h, n, k, d) ==
    IF d > Len(h) THEN [v |-> "", ok |-> FALSE, done |-> FALSE]
    ELSE IF k \in DOMAIN h[n].pfxmap THEN [v |-> h[n].pfxmap[k], ok |-> TRUE, done |-> TRUE]
    ELSE IF h[n].parent # n THEN GetFrame(h, h[n].parent, k, d + 1)
    ELSE [v |-> "", ok |-> FALSE, done |-> TRUE]

\* context.Get
Get(h, n, k) == GetFrame(h, n, k, 1)

\* --------------------------------------------------------------- output
\* A token: k its sort, a and b its texts, n the address of the context of the
\* element it belongs to (0 when it belongs to none), t a text content.
Tok(k, a, b, n, t) == [k |-> k, a |-> a, b |-> b, n |-> n, t |-> t]

\* The printer and the heap during one Encode call.
Machine(h) ==
    [heap |-> h, out |-> <<>>, depth |-> depth, indentedIn |-> indentedIn,
     putNewline |-> putNewline, prefix |-> prefix, indent |-> indent,
     werr |-> werr, err |-> "nil", flog |-> <<>>, elog |-> <<>>]

\* bufio.Writer.Write / WriteString / WriteByte: once the writer has a cached
\* error every write is dropped.
Write(m, tok) == IF m.werr THEN m ELSE [m EXCEPT !.out = Append(@, tok)]

\* Escape(p, s) and the writes of a text: an empty text writes no byte.
WriteText(m, k, t) == IF t = <<>> THEN m ELSE Write(m, Tok(k, "", "", 0, t))

\* printer.cachedWriteError
cachedWriteError(m) == IF m.werr THEN [m EXCEPT !.err = "write error"] ELSE m

Fail(m, e) == [m EXCEPT !.err = e]

\* writeIndent: the newline, or the note that the next call owes one.
putLine(m) ==
    IF m.putNewline THEN Write(m, Tok("nl", "", "", 0, <<>>))
    ELSE [m EXCEPT !.putNewline = TRUE]

\* writeIndent: depth copies of the indent.
putIndent(m) ==
    IF m.indent # "" /\ m.depth > 0 THEN Write(m, Tok("indent", m.indent, "", m.depth, <<>>))
    ELSE m

\* writeIndent: the prefix, then the indent.
putPrefix(m) ==
    IF m.prefix # "" THEN putIndent(Write(m, Tok("prefix", m.prefix, "", 0, <<>>)))
    ELSE putIndent(m)

\* writeIndent: the end, for depthDelta > 0.
indentIn(m, depthDelta) ==
    IF depthDelta > 0 THEN [m EXCEPT !.depth = @ + 1, !.indentedIn = TRUE] ELSE m

\* printer.writeIndent
writeIndent(m, depthDelta) ==
    IF m.prefix = "" /\ m.indent = "" THEN m
    ELSE IF depthDelta < 0
         THEN IF m.indentedIn THEN [m EXCEPT !.depth = @ - 1, !.indentedIn = FALSE]
              ELSE putPrefix(putLine([m EXCEPT !.depth = @ - 1, !.indentedIn = FALSE]))
    ELSE indentIn(putPrefix(putLine(m)), depthDelta)

\* ------------------------------------------------------------ parentStack
\* The length of the longest common prefix of the stack and parents.
RECURSIVE CommonPrefix(_, _, _)
CommonPrefix(stack, parents, split) ==
    IF split < Len(parents) /\ split < Len(stack) /\ parents[split + 1] = stack[split + 1]
    THEN CommonPrefix(stack, parents, split + 1)
    ELSE split

\* The closing tags of stack[i], stack[i-1], ..., stack[split+1].
RECURSIVE closeFrom(_, _, _, _, _)
closeFrom(m, stack, i, split, owner) ==
    IF i <= split THEN m
    ELSE closeFrom(Write(writeIndent(m, -1), Tok("pclose", "", stack[i], owner, <<>>)),
                   stack, i - 1, split, owner)

\* parentStack.trim: the printer after it, and the stack after it.  owner is
\* the context of the element whose marshalStruct holds the stack; it only
\* labels the tokens.
trimNoCommon(m, stack, parents, owner) ==
    [m |-> closeFrom(m, stack, Len(stack), 0, owner), stack |-> <<>>]

trim(m, stack, parents, owner) ==
    LET split == CommonPrefix(stack, parents, 0)
    IN [m |-> closeFrom(m, stack, Len(stack), split, owner),
        stack |-> SubSeq(parents, 1, split)]

\* The open tags of parents[i..].
RECURSIVE openFrom(_, _, _, _)
openFrom(m, parents, i, owner) ==
    IF i > Len(parents) THEN m
    ELSE openFrom(Write(writeIndent(m, 1), Tok("popen", "", parents[i], owner, <<>>)),
                  parents, i + 1, owner)

\* parentStack.push
push(m, stack, parents, owner) ==
    [m |-> openFrom(m, parents, 1, owner), stack |-> stack \o parents]

\* ---------------------------------------------------------------- values
\* reflect.Value, by kind.  tname is reflect.Type.Name().
VInvalid == [kind |-> "invalid", tname |-> ""]
VString(t) == [kind |-> "string", tname |-> "string", t |-> t]
VBytes(t) == [kind |-> "bytes", tname |-> "", t |-> t]
VInt(i) == [kind |-> "int", tname |-> "int", i |-> i]
VBool(b) == [kind |-> "bool", tname |-> "bool", b |-> b]
VMap(n) == [kind |-> "map", tname |-> "", len |-> n]
VTime == [kind |-> "time", tname |-> "Time"]
VNilPtr == [kind |-> "ptr", tname |-> "", isnil |-> TRUE]
VPtr(v) == [kind |-> "ptr", tname |-> "", isnil |-> FALSE, elem |-> v]
VNilIface == [kind |-> "iface", tname |-> "", isnil |-> TRUE]
VIface(v) == [kind |-> "iface", tname |-> "", isnil |-> FALSE, elem |-> v]
VSlice(vs) == [kind |-> "slice", tname |-> "", elems |-> vs]

\* A struct: xmlname is the XMLName field's descriptor (present, and the
\* name and namespace its tag gives), nameval the xml.Name the field holds,
\* fields the other fields, each with its descriptor and its value.
VStruct(tname, xmlname, nameval, fields, tierr) ==
    [kind |-> "struct", tname |-> tname, xmlname |-> xmlname, nameval |-> nameval,
     fields |-> fields, tierr |-> tierr]

NoXMLName == [present |-> FALSE, xmlns |-> "", name |-> ""]
XMLName(ns, name) == [present |-> TRUE, xmlns |-> ns, name |-> name]
Name(space, local) == [Space |-> space, Local |-> local]

\* fieldInfo; NoField is the nil *fieldInfo.
Field(name, xmlns, pfx, mode, omitempty, parents) ==
    [isnil |-> FALSE, name |-> name, xmlns |-> xmlns, prefix |-> pfx, mode |-> mode,
     omitempty |-> omitempty, parents |-> parents]
NoField == [isnil |-> TRUE, name |-> "", xmlns |-> "", prefix |-> "", mode |-> "element",
            omitempty |-> FALSE, parents |-> <<>>]

\* getTypeInfo: the descriptors of val's type.
getTypeInfo(val, xmlns) ==
    IF val.kind = "struct"
    THEN [err |-> val.tierr, xmlname |-> val.xmlname,
          fields |-> [i \in 1..Len(val.fields) |-> val.fields[i].info]]
    ELSE [err |-> FALSE, xmlname |-> NoXMLName, fields |-> <<>>]

\* fieldInfo.value
value(val, i) == val.fields[i].val

\* isEmptyValue
isEmptyValue(v) ==
    CASE v.kind \in {"string", "bytes"} -> Len(v.t) = 0
      [] v.kind = "slice" -> Len(v.elems) = 0
      [] v.kind = "map" -> v.len = 0
      [] v.kind = "bool" -> ~v.b
      [] v.kind = "int" -> v.i = 0
      [] v.kind \in {"ptr", "iface"} -> v.isnil
      [] OTHER -> FALSE

\* time.Time.Format(time.RFC3339Nano) of the one time value of the model.
TimeText == <<"2009-11-10T23:00:00Z">>

\* strconv.FormatBool
FormatBool(b) == IF b THEN <<"true">> ELSE <<"false">>

\* strconv.FormatInt(i, 10)
FormatInt(i) == <<ToString(i)>>

\* printer.marshalSimple
marshalSimple(m, val) ==
    IF val.kind = "time" THEN WriteText(m, "text", TimeText)
    ELSE CASE val.kind = "int" -> cachedWriteError(WriteText(m, "text", FormatInt(val.i)))
           [] val.kind \in {"string", "bytes"} -> cachedWriteError(WriteText(m, "text", val.t))
           [] val.kind = "bool" -> cachedWriteError(WriteText(m, "text", FormatBool(val.b)))
           [] OTHER -> Fail(m, "unsupported type")

\* ------------------------------------------------------------- the printer
\* strings.Index(s, "--") >= 0, bytes.Index(b, ddBytes) >= 0
HasDashDash(t) == \E i \in 1..(Len(t) - 1) : t[i] = "-" /\ t[i + 1] = "-"

\* marshalStruct, case fCharData
charData(m, vf) ==
    CASE vf.kind = "int" -> WriteText(m, "text", FormatInt(vf.i))
      [] vf.kind = "bool" -> WriteText(m, "text", FormatBool(vf.b))
      [] vf.kind \in {"string", "bytes"} -> WriteText(m, "text", vf.t)
      [] vf.kind = "time" -> WriteText(m, "text", TimeText)
      [] OTHER -> m

\* marshalStruct, case fComment: the end of the comment.
closeComment(m, dashLast) ==
    Write(IF dashLast THEN Write(m, Tok("sp", "", "", 0, <<>>)) ELSE m,
          Tok("comment_close", "", "", 0, <<>>))

\* marshalStruct, case fComment: after "<!--" is written.
commentText(m, t) ==
    IF HasDashDash(t) THEN Fail(m, "comments must not contain --")
    ELSE closeComment(WriteText(m, "raw", t), t[Len(t)] = "-")

\* marshalStruct, case fComment
commentWritesContent(m, vf) ==
    IF vf.kind \notin {"string", "bytes"} THEN Fail(m, "bad type for comment field")
    ELSE IF Len(vf.t) = 0 THEN m
    ELSE IF HasDashDash(vf.t)
         THEN Fail(WriteText(Write(writeIndent(m, 0), Tok("comment_open", "", "", 0, <<>>)),
                             "raw", vf.t),
                   "comments must not contain --")
    ELSE commentText(Write(writeIndent(m, 0), Tok("comment_open", "", "", 0, <<>>)), vf.t)

comment(m, vf) ==
    IF vf.kind \notin {"string", "bytes"} THEN Fail(m, "bad type for comment field")
    ELSE IF Len(vf.t) = 0 THEN m
    ELSE commentText(Write(writeIndent(m, 0), Tok("comment_open", "", "", 0, <<>>)), vf.t)

\* The log of the fields marshalStruct has processed: for field idx of the
\* struct whose element has context owner, its descriptor and its value, the
\* length of the output before and after the field, and the context it was
\* encoded in (0 when marshalValue was not called for it).
Logged(m0, m1, owner, idx, finfo, vf, ctx) ==
    [m1 EXCEPT !.flog = Append(@, [owner |-> owner, idx |-> idx, info |-> finfo,
                                   val |-> vf, from |-> Len(m0.out), to |-> Len(m1.out),
                                   ctx |-> ctx])]

\* The log of the elements marshalValue has begun to write: the context of
\* the element and the fields of its value.
Opened(m, nsctx, val) ==
    [m EXCEPT !.elog = Append(@, [ctx |-> nsctx,
                                  fields |-> IF val.kind = "struct" THEN val.fields ELSE <<>>])]

\* The scan of the attributes for new namespaces (marshalValue), from field i.
RECURSIVE scanAttrs(_, _, _, _, _, _)
scanAttrsNoBind(tinfo, val, i, name, nsctx, m) ==
    IF i > Len(tinfo.fields) THEN m
    ELSE IF tinfo.fields[i].mode # "attr" THEN scanAttrs(tinfo, val, i + 1, name, nsctx, m)
    ELSE IF tinfo.fields[i].omitempty /\ isEmptyValue(value(val, i))
         THEN scanAttrs(tinfo, val, i + 1, name, nsctx, m)
    ELSE IF tinfo.fields[i].xmlns # "" /\ ~Get(m.heap, nsctx, tinfo.fields[i].xmlns).ok
         THEN IF tinfo.fields[i].prefix = "" THEN Fail(m, "attribute needs a prefix")
              ELSE scanAttrs(tinfo, val, i + 1, name, nsctx,
                       Write(m, Tok("xmlns", tinfo.fields[i].prefix, tinfo.fields[i].xmlns,
                                    nsctx, <<>>)))
    ELSE scanAttrs(tinfo, val, i + 1, name, nsctx, m)

scanAttrs(tinfo, val, i, name, nsctx, m) ==
    IF i > Len(tinfo.fields) THEN m
    ELSE IF tinfo.fields[i].mode # "attr" THEN scanAttrs(tinfo, val, i + 1, name, nsctx, m)
    ELSE IF tinfo.fields[i].omitempty /\ isEmptyValue(value(val, i))
         THEN scanAttrs(tinfo, val, i + 1, name, nsctx, m)
    ELSE IF tinfo.fields[i].xmlns # "" /\ ~Get(m.heap, nsctx, tinfo.fields[i].xmlns).ok
         THEN IF tinfo.fields[i].prefix = "" THEN Fail(m, "attribute needs a prefix")
              ELSE scanAttrs(tinfo, val, i + 1, name, nsctx,
                       Write([m EXCEPT !.heap = Bind(@, nsctx, tinfo.fields[i].xmlns,
                                                     tinfo.fields[i].prefix)],
                             Tok("xmlns", tinfo.fields[i].prefix, tinfo.fields[i].xmlns,
                                 nsctx, <<>>)))
    ELSE scanAttrs(tinfo, val, i + 1, name, nsctx, m)

\* The loop that writes the attributes (marshalValue), from field i.
RECURSIVE writeAttrs(_, _, _, _, _)

\* The end of the loop body: m is the printer after marshalSimple.
endAttr(tinfo, val, i, nsctx, m) ==
    IF m.err # "nil" THEN m
    ELSE writeAttrs(tinfo, val, i + 1, nsctx, Write(m, Tok("quote", "", "", nsctx, <<>>)))

writeAttrs(tinfo, val, i, nsctx, m) ==
    IF i > Len(tinfo.fields) THEN m
    ELSE IF tinfo.fields[i].mode # "attr" THEN writeAttrs(tinfo, val, i + 1, nsctx, m)
    ELSE IF tinfo.fields[i].omitempty /\ isEmptyValue(value(val, i))
         THEN writeAttrs(tinfo, val, i + 1, nsctx, m)
    ELSE endAttr(tinfo, val, i, nsctx,
                 marshalSimple(Write(m, Tok("attr", Get(m.heap, nsctx, tinfo.fields[i].xmlns).v,
                                            tinfo.fields[i].name, nsctx, <<>>)),
                               value(val, i)))

RECURSIVE marshalValue(_, _, _, _)
RECURSIVE marshalStruct(_, _, _, _)
RECURSIVE marshalFields(_, _, _, _, _, _)
RECURSIVE marshalElems(_, _, _, _, _)

\* marshalValue: the prefix written before the name.
tagPrefix(pfx, nsctx, m) == IF pfx # "" THEN pfx ELSE Get(m.heap, nsctx, m.heap[nsctx].xmlns).v

\* marshalValue: "<", the prefix and the name.
openTag(val, pfx, name, nsctx, m) ==
    Write(writeIndent(Opened(m, nsctx, val), 1),
          Tok("open", tagPrefix(pfx, nsctx, m), name, nsctx, <<>>))

\* marshalValue: the element's namespace, when it is not mapped, is bound in
\* nsctx and declared.
declareNs(pfx, nsctx, m) ==
    IF m.heap[nsctx].xmlns # "" /\ ~Get(m.heap, nsctx, m.heap[nsctx].xmlns).ok
    THEN Write([m EXCEPT !.heap = Bind(@, nsctx, m.heap[nsctx].xmlns, pfx)],
               Tok("xmlns", pfx, m.heap[nsctx].xmlns, nsctx, <<>>))
    ELSE m

\* marshalValue: the attributes, unless the scan failed.
attrs(tinfo, val, nsctx, m) ==
    IF m.err # "nil" THEN m ELSE writeAttrs(tinfo, val, 1, nsctx, m)

\* marshalValue: ">" and the body, unless an attribute failed.
body(tinfo, val, nsctx, m) ==
    IF m.err # "nil" THEN m
    ELSE IF val.kind \in {"struct", "time"}
         THEN marshalStruct(tinfo, val, nsctx, Write(m, Tok("gt", "", "", nsctx, <<>>)))
    ELSE marshalSimple(Write(m, Tok("gt", "", "", nsctx, <<>>)), val)

\* marshalValue: the closing tag, unless the body failed.
closeTag(tagPfx, name, nsctx, m) ==
    IF m.err # "nil" THEN m
    ELSE cachedWriteError(Write(writeIndent(m, -1), Tok("close", tagPfx, name, nsctx, <<>>)))

\* marshalValue from the write of the name on: the element's tags, its
\* namespace declarations, its attributes and its body.
writeElement(val, tinfo, pfx, name, nsctx, m) ==
    closeTag(tagPrefix(pfx, nsctx, m), name, nsctx,
             body(tinfo, val, nsctx,
                  attrs(tinfo, val, nsctx,
                        scanAttrs(tinfo, val, 1, name, nsctx,
                                  declareNs(pfx, nsctx,
                                            openTag(val, pfx, name, nsctx, m))))))

\* marshalValue: the name taken from the XMLName field, "" when it gives none.
xmlnameOf(val, tinfo) ==
    IF ~tinfo.xmlname.present THEN ""
    ELSE IF tinfo.xmlname.name # "" THEN tinfo.xmlname.name
    ELSE val.nameval.Local

\* marshalValue: the namespace the XMLName field gives the element.
xmlnsOf(val, tinfo, nsctx, m) ==
    IF ~tinfo.xmlname.present THEN m.heap[nsctx].xmlns
    ELSE IF tinfo.xmlname.name # "" THEN tinfo.xmlname.xmlns
    ELSE IF val.nameval.Local # "" THEN val.nameval.Space
    ELSE m.heap[nsctx].xmlns

\* marshalValue: the prefix and the name by the precedence XMLName, field,
\* type name; then the element.
namedElement(val, tinfo, finfo, nsctx, m) ==
    IF xmlnameOf(val, tinfo) # ""
    THEN writeElement(val, tinfo, "", xmlnameOf(val, tinfo), nsctx, m)
    ELSE IF ~finfo.isnil /\ finfo.name # ""
         THEN writeElement(val, tinfo, finfo.prefix, finfo.name, nsctx, m)
    ELSE IF val.tname # ""
         THEN writeElement(val, tinfo, IF finfo.isnil THEN "" ELSE finfo.prefix, val.tname,
                           nsctx, m)
    ELSE Fail(m, "unsupported type")

\* marshalValue: getTypeInfo and its error, then the namespace of XMLName.
typedElement(val, tinfo, finfo, nsctx, m) ==
    IF tinfo.err THEN Fail(m, "typeinfo")
    ELSE namedElement(val, tinfo, finfo, nsctx,
                      [m EXCEPT !.heap[nsctx].xmlns = xmlnsOf(val, tinfo, nsctx, m)])

\* marshalValue: nsctx.xmlns = finfo.xmlns.
fieldNs(finfo, nsctx, m) ==
    IF finfo.isnil THEN m ELSE [m EXCEPT !.heap[nsctx].xmlns = finfo.xmlns]

\* marshalValue for a value that denotes one element: its namespace and name.
marshalElement(val, finfo, nsctx, m) ==
    typedElement(val,
                 getTypeInfo(val, IF finfo.isnil THEN m.heap[nsctx].xmlns ELSE finfo.xmlns),
                 finfo, nsctx, fieldNs(finfo, nsctx, m))

\* marshalValue, the loop over the elements of a slice or array, from i: the
\* end of the loop body, r the printer after the element.
nextElem(val, i, finfo, nsctx, r) ==
    IF r.err # "nil" THEN r ELSE marshalElems(val, i + 1, finfo, nsctx, r)

marshalElemsShared(val, i, finfo, nsctx, m) ==
    IF i > Len(val.elems) THEN m
    ELSE nextElem(val, i, finfo, nsctx, marshalValue(val.elems[i], finfo, nsctx, m))

marshalElems(val, i, finfo, nsctx, m) ==
    IF i > Len(val.elems) THEN m
    ELSE nextElem(val, i, finfo, nsctx,
                  marshalValue(val.elems[i], finfo, NewAddr(m.heap),
                               [m EXCEPT !.heap = child(@, nsctx)]))

\* printer.marshalValue
marshalValue(val, finfo, nsctx, m) ==
    IF val.kind = "invalid" THEN m
    ELSE IF ~finfo.isnil /\ finfo.omitempty /\ isEmptyValue(val) THEN m
    ELSE IF val.kind \in {"ptr", "iface"}
         THEN IF val.isnil THEN m ELSE marshalValue(val.elem, finfo, nsctx, m)
    ELSE IF val.kind = "slice" THEN marshalElems(val, 1, finfo, nsctx, m)
    ELSE marshalElement(val, finfo, nsctx, m)

\* marshalStruct, the call of marshalValue that ends the loop body.
fieldValue(vf, finfo, nsctx, m) ==
    marshalValue(vf, finfo, NewAddr(m.heap), [m EXCEPT !.heap = child(@, nsctx)])

\* marshalStruct, case fElement after the trim t: push unless the value is a
\* nil pointer or interface.
pushMissing(t, finfo, vf, nsctx) ==
    IF Len(finfo.parents) > Len(t.stack) /\ ~(vf.kind \in {"ptr", "iface"} /\ vf.isnil)
    THEN push(t.m, t.stack, SubSeq(finfo.parents, Len(t.stack) + 1, Len(finfo.parents)), nsctx)
    ELSE t

\* marshalStruct, case fElement
reconcile(m, stack, finfo, vf, nsctx) ==
    pushMissing(trim(m, stack, finfo.parents, nsctx), finfo, vf, nsctx)

\* marshalStruct, the end of the loop body for field i: return the error, or
\* go on with the next field.
nextField(tinfo, val, i, stack, nsctx, m) ==
    IF m.err # "nil" THEN m ELSE marshalFields(tinfo, val, i + 1, stack, nsctx, m)

\* marshalStruct, a field that is written in place (the cases that continue).
inlineField(tinfo, val, i, stack, nsctx, m) ==
    nextField(tinfo, val, i, stack, nsctx,
              Logged(m,
                     CASE tinfo.fields[i].mode = "chardata" -> charData(m, value(val, i))
                       [] tinfo.fields[i].mode = "comment" -> comment(m, value(val, i))
                       [] OTHER -> WriteText(m, "raw", value(val, i).t),
                     nsctx, i, tinfo.fields[i], value(val, i), 0))

\* marshalStruct, a field that marshalValue encodes; r is the printer and the
\* stack after the switch.
valueField(tinfo, val, i, nsctx, m, r) ==
    nextField(tinfo, val, i, r.stack, nsctx,
              Logged(m, fieldValue(value(val, i), tinfo.fields[i], nsctx, r.m),
                     nsctx, i, tinfo.fields[i], value(val, i), NewAddr(r.m.heap)))

\* marshalStruct, the loop over the fields from field i, then the final trim.
marshalFields(tinfo, val, i, stack, nsctx, m) ==
    IF i > Len(tinfo.fields) THEN cachedWriteError(trim(m, stack, <<>>, nsctx).m)
    ELSE IF tinfo.fields[i].mode = "attr" THEN marshalFields(tinfo, val, i + 1, stack, nsctx, m)
    ELSE IF \/ tinfo.fields[i].mode \in {"chardata", "comment"}
            \/ (tinfo.fields[i].mode = "innerxml" /\ value(val, i).kind \in {"string", "bytes"})
         THEN inlineField(tinfo, val, i, stack, nsctx, m)
    ELSE valueField(tinfo, val, i, nsctx, m,
                    IF tinfo.fields[i].mode \in {"element", "any"}
                    THEN reconcile(m, stack, tinfo.fields[i], value(val, i), nsctx)
                    ELSE [m |-> m, stack |-> stack])

\* printer.marshalStruct
marshalStruct(tinfo, val, nsctx, m) ==
    IF val.kind = "time"
    THEN IF m.werr THEN Fail(m, "write error") ELSE WriteText(m, "text", TimeText)
    ELSE marshalFields(tinfo, val, 1, <<>>, nsctx, m)

\* ----------------------------------------------------------- the encoder
\* Encoder.Encode: the context handed to marshalValue, enc.context.child().
\* The contexts of earlier calls are garbage: only the root is kept.
encodeContextRoot(h) == [heap |-> <<h[Root]>>, nsctx |-> Root]

encodeContext(h) == [heap |-> child(<<h[Root]>>, Root), nsctx |-> NewAddr(<<h[Root]>>)]

\* bufio.Writer.Flush with b buffered: a cached error is returned again, an
\* empty buffer is no write, a failed write of the sink is cached and leaves
\* the buffer as it is.  (The buffer is taken to hold every call's output:
\* no write of the printer reaches the sink before Flush.)
Flush(b, we, sinkFails) ==
    IF we THEN [buffered |-> b, werr |-> TRUE, flushed |-> 0, err |-> "write error"]
    ELSE IF b = 0 THEN [buffered |-> 0, werr |-> FALSE, flushed |-> 0, err |-> "nil"]
    ELSE IF sinkFails
         THEN [buffered |-> b, werr |-> TRUE, flushed |-> 0, err |-> "write error"]
    ELSE [buffered |-> 0, werr |-> FALSE, flushed |-> b, err |-> "nil"]

\* Encoder.Encode after marshalValue returned e with b buffered.
finishNoFlush(e, b, we, sinkFails) ==
    [buffered |-> b, werr |-> we, flushed |-> 0, err |-> e]

finish(e, b, we, sinkFails) ==
    IF e # "nil" THEN [buffered |-> b, werr |-> we, flushed |-> 0, err |-> e]
    ELSE Flush(b, we, sinkFails)

\* The namespaces a sequence of tokens declares.
Declared(toks) == {toks[i].b : i \in {j \in 1..Len(toks) : toks[j].k = "xmlns"}}

\* NewEncoder
Init ==
    /\ heap = <<rootNs2Pfx>>
    /\ prefix = ""
    /\ indent = ""
    /\ depth = 0
    /\ indentedIn = FALSE
    /\ putNewline = FALSE
    /\ buffered = 0
    /\ werr = FALSE
    /\ flushed = 0
    /\ out = <<>>
    /\ err = "nil"
    /\ calls = 0
    /\ flog = <<>>
    /\ elog = <<>>
    /\ earlier = {}
    /\ returned = FALSE

\* Encoder.Indent.  The encoder is configured before it is used: the calls
\* of Indent come before the first Encode call.
Indent(pre, ind) ==
    /\ calls = 0
    /\ prefix' = pre
    /\ indent' = ind
    /\ UNCHANGED <<heap, depth, indentedIn, putNewline, buffered, werr, flushed, out, err,
                   calls, flog, elog, earlier, returned>>

\* Encoder.Encode; sinkFails: the io.Writer under the buffer rejects the write
\* that Flush makes.
Encode(v) ==
    /\ ~returned
    /\ calls < MaxCalls
    /\ \E c \in {encodeContext(heap)} :
       \E r \in {marshalValue(v, NoField, c.nsctx, Machine(c.heap))} :
       \E sinkFails \in BOOLEAN :
       \E f \in {finish(r.err, buffered + Len(r.out), werr, sinkFails)} :
          /\ heap' = r.heap
          /\ depth' = r.depth
          /\ indentedIn' = r.indentedIn
          /\ putNewline' = r.putNewline
          /\ out' = r.out
          /\ flog' = r.flog
          /\ elog' = r.elog
          /\ buffered' = f.buffered
          /\ werr' = f.werr
          /\ flushed' = f.flushed
          /\ err' = f.err
    /\ calls' = calls + 1
    /\ returned' = TRUE
    /\ UNCHANGED <<prefix, indent, earlier>>

\* The caller of Encode takes the error and the sink takes what was flushed;
\* the contexts of the call are garbage from here on.
Return ==
    /\ returned
    /\ returned' = FALSE
    /\ heap' = <<heap[Root]>>
    /\ out' = <<>>
    /\ flog' = <<>>
    /\ elog' = <<>>
    /\ flushed' = 0
    /\ err' = "nil"
    /\ earlier' = earlier \cup Declared(out)
    /\ UNCHANGED <<prefix, indent, depth, indentedIn, putNewline, buffered, werr, calls>>

\* ------------------------------------------------------ the values encoded
\* Text contents.
T0 == <<>>
Tx == <<"x">>
TDashLast == <<"a", "-">>
TDashDash == <<"a", "-", "-", "b">>

F(info, val) == [info |-> info, val |-> val]

\* The types of the tests (decodectx_test.go): XmppErrTxt{XMLName Name},
\* XmppErr{XMLName Name `xml:"xmpp1 error"`; Text XmppErrTxt `xml:",any"`}.
XmppErrTxt(nv) == VStruct("XmppErrTxt", XMLName("", ""), nv, <<>>, FALSE)
XmppErr(txt) ==
    VStruct("XmppErr", XMLName("xmpp1", "error"), Name("", ""),
            <<F(Field("Text", "xmpp1", "", "any", FALSE, <<>>), txt)>>, FALSE)

XmppErrs == {XmppErr(XmppErrTxt(nv)) : nv \in {Name("", ""), Name("xmpp2", "blah")}}

\* A struct with no XMLName field and the given fields.
Plain(tname, fields) == VStruct(tname, NoXMLName, Name("", ""), fields, FALSE)
\* A struct whose XMLName field's tag names it.
Tagged(ns, name, fields) == VStruct("T", XMLName(ns, name), Name("", ""), fields, FALSE)

\* Attribute fields.
AttrId == F(Field("id", "", "", "attr", FALSE, <<>>), VString(Tx))
AttrLang == F(Field("lang", "nsA", "a", "attr", FALSE, <<>>), VString(Tx))
AttrKind == F(Field("kind", "nsA", "b", "attr", FALSE, <<>>), VInt(5))
AttrBare(t) == F(Field("bare", "nsA", "", "attr", TRUE, <<>>), VString(t))
AttrOwn == F(Field("own", "xmpp1", "", "attr", FALSE, <<>>), VString(Tx))
AttrXml == F(Field("space", XML_NS, "", "attr", FALSE, <<>>), VString(Tx))
AttrMap == F(Field("m", "", "", "attr", FALSE, <<>>), VMap(1))

AttrLists ==
    {<<AttrId>>, <<AttrLang, AttrKind>>, <<AttrLang, AttrBare(Tx)>>, <<AttrOwn, AttrXml>>,
     <<AttrMap>>}
    \cup {<<AttrId, AttrBare(t)>> : t \in {T0, Tx}}

AttrValues == {Tagged("xmpp1", "msg", fs) : fs \in AttrLists}

\* Elements nested in elements: leaf in mid in outer, each field with its
\* namespace and prefix.
Leaf(ns, pfx) == F(Field("leaf", ns, pfx, "element", FALSE, <<>>), VString(Tx))
Mid(ns, pfx, fields) == F(Field("mid", ns, pfx, "element", FALSE, <<>>), Plain("Mid", fields))

NestedValues ==
    {Tagged("xmpp1", "outer", <<Mid(mns[1], mns[2], <<AttrLang, Leaf(lns[1], lns[2])>>)>>) :
        mns \in {<<"xmpp1", "">>, <<"nsB", "p">>}, lns \in {<<"xmpp1", "">>, <<"nsA", "">>}}
    \cup {Tagged(XML_NS, "lang", <<Leaf("nsB", "p"), Leaf("nsB", "p")>>),
          Tagged("xmpp1", "outer", <<Mid("xmpp1", "", <<AttrLang, AttrKind>>),
                                     Mid("xmpp1", "", <<AttrBare(Tx)>>)>>)}

\* Slices of at most MaxLen elements.
SeqsOf(S) == UNION {[1..n -> S] : n \in 0..MaxLen}

Item == Plain("Item", <<Leaf("nsA", "")>>)
ListValues ==
    {Plain("List", <<F(Field("item", "nsB", "", "element", omit, <<"items">>), VSlice(vs))>>) :
        omit \in BOOLEAN, vs \in {[i \in 1..n |-> Item] : n \in 0..MaxLen}}
    \cup {VSlice(vs) : vs \in SeqsOf(XmppErrs)}

\* Fields with nested paths a>b, a>c, a>n>d, e, and with nil and empty values.
PathB == F(Field("b", "", "", "element", FALSE, <<"a">>), VString(Tx))
PathC == F(Field("c", "", "", "element", FALSE, <<"a">>), VString(Tx))
PathD == F(Field("d", "", "", "element", FALSE, <<"a", "n">>), VInt(5))
PathE == F(Field("e", "", "", "element", FALSE, <<>>), VBool(TRUE))
PathNil == F(Field("g", "", "", "element", FALSE, <<"a", "n">>), VNilPtr)
PathOmit == F(Field("o", "", "", "element", TRUE, <<"a">>), VString(T0))
PathOmitInt == F(Field("z", "", "", "element", TRUE, <<>>), VInt(0))

PathValues ==
    {Plain("Paths", <<f1, f2, f3>>) :
        f1 \in {PathB, PathOmit}, f2 \in {PathB, PathD, PathNil}, f3 \in {PathC, PathE}}
    \cup {Plain("Paths", <<PathOmit>>), Plain("Paths", <<PathOmitInt, PathOmit, PathOmitInt>>),
          Plain("Paths", <<PathD, PathNil, PathOmit>>)}

\* Comment, character data and inner XML fields.
Chars(v) == F(Field("chars", "", "", "chardata", FALSE, <<>>), v)
Comment(v) == F(Field("note", "", "", "comment", FALSE, <<>>), v)
Inner(v) == F(Field("raw", "", "", "innerxml", FALSE, <<>>), v)

BodyValues ==
    {Plain("Body", <<Chars(VString(Tx)), Comment(c)>>) :
        c \in {VString(T0), VString(Tx), VString(TDashLast), VString(TDashDash),
               VBytes(TDashDash), VBytes(TDashLast), VInt(5)}}
    \cup {Plain("Body", <<PathB, Comment(VString(TDashDash))>>),
          Plain("Body", <<Comment(VString(TDashDash))>>),
          Plain("Body", <<Chars(VInt(0)), Chars(VBool(FALSE)), Chars(VTime), Chars(VBytes(Tx)),
                          Chars(VMap(0))>>),
          Plain("Body", <<Inner(VString(Tx)), Inner(VBytes(Tx)), Inner(Item),
                          F(Field("when", "", "", "element", FALSE, <<>>), VTime)>>)}

\* Values that are no struct, and a struct whose type getTypeInfo rejects.
OtherValues ==
    {VInvalid, VNilPtr, VNilIface, VString(Tx), VInt(5), VBool(TRUE), VTime, VMap(1),
     VBytes(Tx), VStruct("Bad", NoXMLName, Name("", ""), <<>>, TRUE)}
    \cup {VPtr(v) : v \in XmppErrs} \cup {VIface(VPtr(v)) : v \in XmppErrs}

Values ==
    XmppErrs \cup AttrValues \cup NestedValues \cup ListValues \cup PathValues
    \cup BodyValues \cup OtherValues

\* The arguments of Indent.
IndentStrings == {"", " "}

Next ==
    \/ \E v \in Values : Encode(v)
    \/ \E pre \in IndentStrings, ind \in IndentStrings : Indent(pre, ind)
    \/ Return

Spec == Init /\ [][Next]_vars

\* -------------------------------------------- the context taken on its own
\* A heap of contexts built from rootNs2Pfx by child() and by assignments to
\* pfxmap, as any user of the type may build it.
CtxKeys == {"nsA", XML_NS}
CtxPrefixes == {"", "a"}

CtxChild(n) ==
    /\ Len(heap) < MaxCtx
    /\ heap' = child(heap, n)
    /\ UNCHANGED <<prefix, indent, depth, indentedIn, putNewline, buffered, werr, flushed, out,
                   err, calls, flog, elog, earlier, returned>>

CtxBind(n, k, v) ==
    /\ heap' = Bind(heap, n, k, v)
    /\ UNCHANGED <<prefix, indent, depth, indentedIn, putNewline, buffered, werr, flushed, out,
                   err, calls, flog, elog, earlier, returned>>

NextCtx ==
    \/ \E n \in 1..Len(heap) : CtxChild(n)
    \/ \E n \in 1..Len(heap), k \in CtxKeys, v \in CtxPrefixes : CtxBind(n, k, v)

SpecCtx == Init /\ [][NextCtx]_vars

\* ------------------------------------------------- reading a call's result
\* The positions of the tokens of sort k in the output of the last call.
Toks(k) == {i \in 1..Len(out) : out[i].k = k}

\* The strict ancestors of context n.
RECURSIVE Ancestors(_, _)
Ancestors(h, n) == IF h[n].parent = n THEN {} ELSE {h[n].parent} \cup Ancestors(h, h[n].parent)

\* The contexts of the elements the last call opened.
ElemCtxs == {out[i].n : i \in Toks("open")}

\* The namespaces the strict ancestors of n bind.
BoundAbove(n) == UNION {DOMAIN heap[a].pfxmap : a \in Ancestors(heap, n)}

\* Element context n carries a declaration of namespace u.
Declares(n, u) == \E j \in Toks("xmlns") : out[j].n = n /\ out[j].b = u

\* The writes of the last call reached the buffer: the writer had no cached
\* error when the call began.
WritesKept == ~werr \/ out # <<>>

\* ------------------------------------------------------------------ claims
\* C1: every Encode call on one Encoder starts from a fresh child of the root
\* context, and the root keeps only its reserved bindings: each top-level
\* element whose namespace is non-empty and not bound in the root declares
\* that namespace itself, whatever earlier Encode calls declared.
C1_EachEncodeDeclares ==
    returned =>
        /\ heap[Root] = rootNs2Pfx
        /\ \A i \in Toks("open") :
              LET n == out[i].n
                  u == heap[n].xmlns
              IN (Ancestors(heap, n) \cap ElemCtxs = {}
                  /\ u # "" /\ u \notin DOMAIN rootNs2Pfx.pfxmap)
                 => Root \in Ancestors(heap, n) /\ Declares(n, u)

\* C1 witness: the second Encode of a value named in namespace xmpp1, after a
\* first Encode that declared xmpp1 and was flushed, declares xmpp1 again.
C1_Witness ==
    /\ returned /\ err = "nil" /\ calls = 2
    /\ "xmpp1" \in earlier
    /\ flushed = Len(out)
    /\ \E i \in Toks("open") :
          /\ heap[out[i].n].parent = Root
          /\ heap[out[i].n].xmlns = "xmpp1"
          /\ out[i].b = "error"
          /\ Declares(out[i].n, "xmpp1")

\* C2: within one Encode, a namespace that a strict ancestor context binds is
\* never declared again: no xmlns declaration is written at an element for a
\* namespace one of its ancestors' contexts maps.
C2_NoRedeclaration ==
    returned => \A j \in Toks("xmlns") : out[j].b \notin BoundAbove(out[j].n)

\* C2 witness: an element in the namespace its parent element declared, and a
\* grandchild in the namespace its grandparent declared, both without a
\* declaration of their own.
C2_Witness ==
    /\ returned /\ err = "nil"
    /\ \E i \in Toks("open") :
          LET n == out[i].n
              u == heap[n].xmlns
          IN /\ u # ""
             /\ ~Declares(n, u)
             /\ \E a, mid \in Ancestors(heap, n) \cap ElemCtxs :
                   /\ a \in Ancestors(heap, mid)
                   /\ heap[mid].xmlns # u
                   /\ Declares(a, u)

\* The contexts that stand for a sequence: no element of their own, and the
\* parent of an element's context.
SeqCtxs ==
    {c \in 2..Len(heap) : c \notin ElemCtxs /\ \E n \in ElemCtxs : heap[n].parent = c}

\* C3: every element of a slice or array is encoded in a fresh child of the
\* sequence's context: no two elements share a context, the sequence itself
\* gets no tag, a slice field of n elements yields n elements, and every
\* element whose namespace no ancestor binds carries its own declaration.
C3_FreshContextPerElement ==
    (returned /\ WritesKept) =>
        /\ \A i, j \in Toks("open") : out[i].n = out[j].n => i = j
        /\ \A e \in {flog[x] : x \in 1..Len(flog)} :
              (e.val.kind = "slice" /\ e.ctx # 0) =>
                  /\ e.ctx \notin ElemCtxs
                  /\ (err = "nil" /\ \A x \in 1..Len(e.val.elems) : e.val.elems[x].kind = "struct")
                        => Cardinality({n \in ElemCtxs : heap[n].parent = e.ctx})
                               = Len(e.val.elems)
        /\ \A n \in ElemCtxs :
              (heap[n].xmlns # "" /\ heap[n].xmlns \notin BoundAbove(n))
                  => Declares(n, heap[n].xmlns)

\* C3 witness: a sequence of two elements that both need the same namespace,
\* each carrying its declaration.
C3_Witness ==
    /\ returned /\ err = "nil"
    /\ \E c \in SeqCtxs : \E n1, n2 \in ElemCtxs :
          /\ n1 # n2
          /\ heap[n1].parent = c /\ heap[n2].parent = c
          /\ heap[n1].xmlns = heap[n2].xmlns
          /\ heap[n1].xmlns \notin BoundAbove(n1) \cup {""}
          /\ Declares(n1, heap[n1].xmlns) /\ Declares(n2, heap[n2].xmlns)

\* The entries of the field log.
Fields == {flog[x] : x \in 1..Len(flog)}

\* Field entry e is an element-mode field.
IsElementField(e) == e.info.mode \in {"element", "any"}

\* The value of field entry e is a nil pointer or interface.
IsNilField(e) == e.val.kind \in {"ptr", "iface"} /\ e.val.isnil

\* Field entry f is the element-mode field that follows e in the same struct.
FollowsElement(e, f) ==
    /\ f.owner = e.owner /\ f.idx > e.idx
    /\ IsElementField(e) /\ IsElementField(f)
    /\ ~\E g \in Fields : g.owner = e.owner /\ IsElementField(g) /\ e.idx < g.idx /\ g.idx < f.idx

\* The names of the synthetic parents that struct owner closes (k = "pclose")
\* or opens (k = "popen") at the output positions lo+1 .. hi, in order.
RECURSIVE ParentToks(_, _, _, _)
ParentToks(k, owner, lo, hi) ==
    IF lo >= hi THEN <<>>
    ELSE (IF out[lo + 1].k = k /\ out[lo + 1].n = owner THEN <<out[lo + 1].b>> ELSE <<>>)
         \o ParentToks(k, owner, lo + 1, hi)

Reverse(q) == [i \in 1..Len(q) |-> q[Len(q) + 1 - i]]

\* C4: consecutive element-mode fields of a struct with non-nil values share
\* the synthetic parents of the common prefix of their paths: when the second
\* field is reached only the segments of the first path beyond the common
\* prefix are closed, innermost first, only the segments of the second path
\* beyond it are opened, and nothing of the stack is closed or opened in
\* between.
C4_SharedParents ==
    (returned /\ WritesKept) =>
        \A e, f \in Fields :
            (FollowsElement(e, f) /\ ~IsNilField(e) /\ ~IsNilField(f)) =>
                LET split == CommonPrefix(e.info.parents, f.info.parents, 0)
                IN /\ ParentToks("pclose", e.owner, f.from, f.to)
                        = Reverse(SubSeq(e.info.parents, split + 1, Len(e.info.parents)))
                   /\ ParentToks("popen", e.owner, f.from, f.to)
                        = SubSeq(f.info.parents, split + 1, Len(f.info.parents))
                   /\ ParentToks("pclose", e.owner, e.to, f.from) = <<>>
                   /\ ParentToks("popen", e.owner, e.to, f.from) = <<>>

\* C4 witness: fields with the paths a>b, a>b and a>c, written inside one <a>:
\* one open tag and one close tag of a in the whole struct.
C4_Witness ==
    /\ returned /\ err = "nil"
    /\ \E e1, e2, e3 \in Fields :
          /\ FollowsElement(e1, e2) /\ FollowsElement(e2, e3)
          /\ e1.idx = 1 /\ e3.idx = 3
          /\ e1.info.parents = <<"a">> /\ e2.info.parents = <<"a">> /\ e3.info.parents = <<"a">>
          /\ e1.info.name = "b" /\ e2.info.name = "b" /\ e3.info.name = "c"
          /\ ParentToks("popen", e1.owner, 0, Len(out)) = <<"a">>
          /\ ParentToks("pclose", e1.owner, 0, Len(out)) = <<"a">>
          /\ ParentToks("popen", e1.owner, e1.from, e1.to) = <<"a">>
          /\ ParentToks("pclose", e1.owner, e3.to, Len(out)) = <<"a">>

\* The error of a comment that contains "--".
CommentError == "comments must not contain --"

\* Field entry e is a comment field whose text contains "--".
IsDashDashComment(e) ==
    /\ e.info.mode = "comment"
    /\ e.val.kind \in {"string", "bytes"}
    /\ HasDashDash(e.val.t)

\* C5 as claimed: a comment field whose text contains "--" ends the call with
\* an error and nothing is written for it.
C5_Original ==
    returned =>
        \A e \in Fields : IsDashDashComment(e) => (err = CommentError /\ e.to = e.from)

\* C5 as amended: a comment field whose text contains "--" ends the call with
\* an error, and what is written for it is its indentation and the comment
\* opener, never the text nor the closing delimiter; the field is the last
\* thing the call writes.
C5_Amended ==
    (returned /\ WritesKept) =>
        \A e \in Fields :
            IsDashDashComment(e) =>
                /\ err = CommentError
                /\ e.to = Len(out)
                /\ e.to > e.from
                /\ out[e.to].k = "comment_open"
                /\ \A i \in (e.from + 1)..(e.to - 1) : out[i].k \in {"nl", "prefix", "indent"}

\* C5 witness: such a comment after other output, written with indentation.
C5_Witness ==
    /\ returned /\ err = CommentError
    /\ \E e \in Fields :
          /\ IsDashDashComment(e)
          /\ e.from > 0
          /\ e.to > e.from + 1
          /\ out[e.to].k = "comment_open"

\* C6 as claimed: a field marked omitempty whose value is empty writes
\* nothing at all, synthetic parents included.
C6_Original ==
    returned =>
        \A e \in Fields : (e.info.omitempty /\ isEmptyValue(e.val)) => e.to = e.from

\* C6 witness of the divergence: the only field of a struct is marked
\* omitempty, its value is the empty string, its path is a>o, and the call
\* wrote <a></a> for it.
C6_Divergence ==
    /\ returned /\ err = "nil"
    /\ \E e \in Fields :
          /\ e.info.omitempty /\ isEmptyValue(e.val)
          /\ ParentToks("popen", e.owner, e.from, e.to) = <<"a">>
          /\ ParentToks("pclose", e.owner, e.to, Len(out)) = <<"a">>

\* The entries of the element log.
Elems == {elog[x] : x \in 1..Len(elog)}

\* The attribute fields of element entry e that are written: those not
\* skipped as empty and omitempty.
Attrs(e) ==
    {i \in 1..Len(e.fields) :
        /\ e.fields[i].info.mode = "attr"
        /\ ~(e.fields[i].info.omitempty /\ isEmptyValue(e.fields[i].val))}

\* The namespace of attribute i of element entry e is not empty and neither
\* an ancestor of the element nor the element's own name has bound it.
Unmapped(e, i) ==
    LET u == e.fields[i].info.xmlns
    IN u # "" /\ u \notin BoundAbove(e.ctx) /\ u # heap[e.ctx].xmlns

\* Attribute i of element entry e is the first written attribute of its
\* namespace.
FirstOfNs(e, i) ==
    ~\E j \in Attrs(e) : j < i /\ e.fields[j].info.xmlns = e.fields[i].info.xmlns

\* Attribute i of element entry e needs a prefix and has none.
NeedsPrefix(e, i) ==
    i \in Attrs(e) /\ Unmapped(e, i) /\ FirstOfNs(e, i) /\ e.fields[i].info.prefix = ""

\* The positions of the declarations of namespace u that element context n
\* carries.
Decls(n, u) == {j \in Toks("xmlns") : out[j].n = n /\ out[j].b = u}

AttrError == "attribute needs a prefix"

\* C7: an element with a written attribute whose namespace is unmapped and
\* whose descriptor has no prefix makes the call fail, before the open tag is
\* finished; a written attribute with a prefix whose namespace is unmapped
\* binds the namespace to the prefix in the element's own context, and the
\* element carries exactly one declaration of the namespace, with that
\* prefix, however many of its attributes share the namespace.
C7_AttributeNamespaces ==
    returned =>
        \A e \in Elems :
            /\ (\E i \in Attrs(e) : NeedsPrefix(e, i)) =>
                  /\ err = AttrError
                  /\ ~\E j \in Toks("gt") : out[j].n = e.ctx
            /\ \A i \in Attrs(e) :
                  (/\ Unmapped(e, i) /\ FirstOfNs(e, i)
                   /\ e.fields[i].info.prefix # ""
                   /\ ~\E j \in Attrs(e) : j < i /\ NeedsPrefix(e, j))
                  => LET u == e.fields[i].info.xmlns
                     IN /\ u \in DOMAIN heap[e.ctx].pfxmap
                        /\ heap[e.ctx].pfxmap[u] = e.fields[i].info.prefix
                        /\ u \notin DOMAIN heap[heap[e.ctx].parent].pfxmap
                        /\ WritesKept =>
                              /\ Cardinality(Decls(e.ctx, u)) = 1
                              /\ \A j \in Decls(e.ctx, u) : out[j].a = e.fields[i].info.prefix
            /\ \A j, k \in Toks("xmlns") :
                  (out[j].n = e.ctx /\ out[k].n = e.ctx /\ out[j].b = out[k].b) => j = k

\* C7 witness: one element has two attributes of one unmapped namespace, both
\* with a prefix, and carries one declaration; a later element of the same
\* call has an attribute of that namespace without a prefix, and the call
\* fails.
C7_Witness ==
    /\ returned /\ err = AttrError
    /\ \E e, f \in Elems :
          /\ e.ctx # f.ctx
          /\ \E i, j \in Attrs(e) :
                /\ i < j
                /\ Unmapped(e, i)
                /\ e.fields[i].info.xmlns = e.fields[j].info.xmlns
                /\ e.fields[i].info.prefix # "" /\ e.fields[j].info.prefix # ""
                /\ Cardinality(Decls(e.ctx, e.fields[i].info.xmlns)) = 1
                /\ \E x \in Toks("attr") : out[x].n = e.ctx /\ out[x].b = e.fields[j].info.name
          /\ \E i \in Attrs(f) :
                NeedsPrefix(f, i) /\ \E g \in Attrs(e) : e.fields[g].info.xmlns = f.fields[i].info.xmlns

\* C8 as claimed: whatever Encode returns, nothing the printer wrote is left
\* in the buffer when it returns (the sink taking every write).
C8_Original ==
    (returned /\ ~werr) => buffered = 0

\* C8 as amended: Encode flushes only when marshalValue succeeded.  On
\* success (the sink taking the write) the buffer is empty and the sink got
\* the whole output of the call; when marshalValue failed Encode returns its
\* error without flushing, and what the call wrote stays in the buffer.  With
\* a write error cached the call fails and nothing reaches the sink.
C8_FlushOnSuccessOnly ==
    returned =>
        /\ (~werr /\ err = "nil") => (buffered = 0 /\ flushed >= Len(out))
        /\ (~werr /\ err # "nil") => (flushed = 0 /\ buffered >= Len(out))
        /\ werr => (err # "nil" /\ flushed = 0)

\* C8 witness: a call fails after it wrote, its output stays in the buffer,
\* and the next successful call flushes it with its own output.
C8_Witness ==
    /\ returned /\ ~werr /\ err = "nil"
    /\ calls = 2
    /\ out # <<>>
    /\ buffered = 0
    /\ flushed > Len(out)

\* The chain of context n: n, its parent, ..., the root.
RECURSIVE Chain(_, _)
Chain(h, n) == IF h[n].parent = n THEN <<n>> ELSE <<n>> \o Chain(h, h[n].parent)

\* The binding of k in the nearest node of the chain of n that binds k.
Nearest(h, n, k) ==
    LET c == Chain(h, n)
        binders == {i \in 1..Len(c) : k \in DOMAIN h[c[i]].pfxmap}
    IN IF binders = {} THEN [v |-> "", ok |-> FALSE, done |-> TRUE]
       ELSE LET first == CHOOSE i \in binders : \A j \in binders : i <= j
            IN [v |-> h[c[first]].pfxmap[k], ok |-> TRUE, done |-> TRUE]

\* The keys looked up: those bound by the actions, a reserved one bound only
\* in the root, and one bound nowhere.
LookupKeys == CtxKeys \cup {XMLNS_NS, "nsZ"}

\* C9: in every heap built from the root by child() and local bindings, Get
\* ends for every node and key, with the binding of the nearest node of the
\* chain self, parent, ..., root that binds the key, and with ("", false)
\* when no node of the chain binds it.
C9_GetNearestBinding ==
    \A n \in 1..Len(heap), k \in LookupKeys : Get(heap, n, k) = Nearest(heap, n, k)

\* C9 witness: a grandchild of the root resolves a key its parent binds to a
\* prefix other than the root's, a key only the root binds, and finds no
\* binding for a key bound nowhere.
C9_Witness ==
    \E n \in 1..Len(heap) :
        LET p == heap[n].parent
        IN /\ p # n /\ p # Root /\ heap[p].parent = Root
           /\ heap[n].pfxmap = EmptyMap
           /\ "nsA" \in DOMAIN heap[p].pfxmap /\ "nsA" \in DOMAIN heap[Root].pfxmap
           /\ heap[p].pfxmap["nsA"] # heap[Root].pfxmap["nsA"]
           /\ Get(heap, n, "nsA") = [v |-> heap[p].pfxmap["nsA"], ok |-> TRUE, done |-> TRUE]
           /\ Get(heap, n, XMLNS_NS) = [v |-> "xmlns", ok |-> TRUE, done |-> TRUE]
           /\ Get(heap, n, "nsZ") = [v |-> "", ok |-> FALSE, done |-> TRUE]

\* The position of the open tag of element context n (0 when there is none).
OpenAt(n) == IF \E i \in Toks("open") : out[i].n = n
             THEN CHOOSE i \in Toks("open") : out[i].n = n
             ELSE 0

\* C10: after any call the root has its two reserved bindings and nothing
\* else, and the bindings of every other context are exactly those declared
\* in the open tag of the element of that context: no context gets a binding
\* from the encoding of another element.
C10_BindingsStayLocal ==
    returned =>
        /\ heap[Root] = rootNs2Pfx
        /\ WritesKept =>
              /\ \A c \in 2..Len(heap) :
                    /\ DOMAIN heap[c].pfxmap = {out[j].b : j \in {x \in Toks("xmlns") : out[x].n = c}}
                    /\ \A j \in Toks("xmlns") : out[j].n = c => heap[c].pfxmap[out[j].b] = out[j].a
              /\ \A j \in Toks("xmlns") :
                    /\ OpenAt(out[j].n) > 0
                    /\ OpenAt(out[j].n) < j
                    /\ \A x \in (OpenAt(out[j].n) + 1)..j : out[x].k = "xmlns" /\ out[x].n = out[j].n

\* C10 witness: an element and a descendant of it both have bindings, the
\* descendant one that its ancestor has not, after a second call.
C10_Witness ==
    /\ returned /\ calls = 2
    /\ earlier # {}
    /\ \E c, d \in ElemCtxs :
          /\ c \in Ancestors(heap, d)
          /\ heap[c].pfxmap # EmptyMap
          /\ \E u \in DOMAIN heap[d].pfxmap : u \notin DOMAIN heap[c].pfxmap

\* The positions of the tokens that write attribute i of element entry e.
AttrToks(e, i) ==
    {j \in Toks("attr") : out[j].n = e.ctx /\ out[j].b = e.fields[i].info.name}

\* C11 as claimed: after a successful call every written attribute whose
\* descriptor has a namespace is written once, with a non-empty prefix, and
\* the context chain of its element maps the namespace to that prefix.
C11_Original ==
    (returned /\ err = "nil" /\ WritesKept) =>
        \A e \in Elems :
            \A i \in Attrs(e) :
                e.fields[i].info.xmlns # "" =>
                    /\ Cardinality(AttrToks(e, i)) = 1
                    /\ \A j \in AttrToks(e, i) :
                          /\ out[j].a # ""
                          /\ Get(heap, e.ctx, e.fields[i].info.xmlns)
                                = [v |-> out[j].a, ok |-> TRUE, done |-> TRUE]

\* C11 witness of the divergence: an element declares its namespace as the
\* default namespace (empty prefix), one of its attributes has that namespace
\* in its descriptor, the call succeeds and the attribute is written without
\* a prefix and without a declaration of its own.
C11_Divergence ==
    /\ returned /\ err = "nil" /\ WritesKept
    /\ \E e \in Elems :
          \E i \in Attrs(e) :
             LET u == e.fields[i].info.xmlns
             IN /\ u # "" /\ u = heap[e.ctx].xmlns
                /\ Cardinality(Decls(e.ctx, u)) = 1
                /\ \A d \in Decls(e.ctx, u) : out[d].a = ""
                /\ Get(heap, e.ctx, u) = [v |-> "", ok |-> TRUE, done |-> TRUE]
                /\ AttrToks(e, i) # {}
                /\ \A j \in AttrToks(e, i) : out[j].a = ""

====
